---------------------------- MODULE Spec2Model ----------------------------
(***************************************************************************)
(* A model of the NewsIQ application (src/app.py): the cross-provider      *)
(* deduplication pass, the three provider adapters with the fetch          *)
(* pipeline, and the Streamlit session (study list and quiz).              *)
(*                                                                         *)
(* Text is modelled as a sequence of one-character strings, so that        *)
(* lower-casing, punctuation stripping, whitespace splitting and trimming  *)
(* are computed the way the code computes them.  Python's None is the      *)
(* sentinel None below; it is different from every text value used.        *)
(***************************************************************************)
EXTENDS Naturals, Integers, Sequences, FiniteSets, TLC

VARIABLES
    \* ---- deduplicate_articles (src/app.py:48-72) ----
    articles,           \* the input list handed to deduplicate_articles
    art_idx,            \* number of input articles the for loop has consumed
    unique_articles,    \* the output list, as references (positions) into articles
    \* ---- provider adapters and fetch_news (src/app.py:134-200) ----
    query,              \* the query string of the call
    nd_key,             \* whether the NEWSDATA_KEY secret is configured
    fetch_pc,           \* "idle" before the call, "returned" after it
    called,             \* which function was called
    requests,           \* the upstream requests the call issued, in order
    failure,            \* whether any failure occurred during the call
    raised,             \* whether the call raised to its caller
    ret,                \* the list the call returned
    \* ---- Streamlit session state (src/app.py:38-44) and what a run renders ----
    study_list,
    quiz_data,          \* None, or the list generate_quiz_json returned: [is_none, questions]
    quiz_submitted,
    quiz_mode,
    current_q_index,
    user_answers,
    view,               \* which branch of the mode switch the last run rendered
    crashed,            \* whether the last run stopped on an exception
    graded              \* per question, whether the results view scored it correct

dedupVars   == <<articles, art_idx, unique_articles>>
fetchVars   == <<query, nd_key, fetch_pc, called, requests, failure, raised, ret>>
sessionVars == <<study_list, quiz_data, quiz_submitted, quiz_mode, current_q_index,
                 user_answers, view, crashed, graded>>
vars        == <<dedupVars, fetchVars, sessionVars>>

\* Python's None (a missing image, a missing answer, JSON null).
None == "<None>"

\* Python truthiness of a str-or-None value: None and the empty string are falsy.
Truthy(v) == v # None /\ v # ""

Min(S) == CHOOSE m \in S : \A n \in S : m <= n

(***************************************************************************)
(* Text helpers                                                            *)
(***************************************************************************)
UpperLetters == <<"A","B","C","D","E","F","G","H","I","J","K","L","M",
                  "N","O","P","Q","R","S","T","U","V","W","X","Y","Z">>
LowerLetters == <<"a","b","c","d","e","f","g","h","i","j","k","l","m",
                  "n","o","p","q","r","s","t","u","v","w","x","y","z">>
Digits       == {"0","1","2","3","4","5","6","7","8","9"}
Whitespace   == {" ", "\t", "\n"}

Range(s) == {s[i] : i \in DOMAIN s}

\* str.lower() on one character
LowerChar(c) ==
    IF \E i \in DOMAIN UpperLetters : UpperLetters[i] = c
    THEN LowerLetters[CHOOSE i \in DOMAIN UpperLetters : UpperLetters[i] = c]
    ELSE c

\* text.lower()
Lower(text) == [i \in DOMAIN text |-> LowerChar(text[i])]

\* the characters re.sub(r'[^a-zA-Z0-9\s]', '', ...) keeps
IsKept(c) == c \in Range(LowerLetters) \cup Range(UpperLetters) \cup Digits \cup Whitespace

\* re.sub(r'[^a-zA-Z0-9\s]', '', text)
StripPunct(text) == SelectSeq(text, IsKept)

\* str.split(): the maximal runs of non-whitespace characters
RECURSIVE SplitFrom(_, _, _)
SplitFrom(text, i, cur) ==
    IF i > Len(text)
    THEN IF cur = <<>> THEN {} ELSE {cur}
    ELSE IF text[i] \in Whitespace
         THEN (IF cur = <<>> THEN {} ELSE {cur}) \cup SplitFrom(text, i + 1, <<>>)
         ELSE SplitFrom(text, i + 1, Append(cur, text[i]))

\* set(clean.split())
SplitWords(text) == SplitFrom(text, 1, <<>>)

\* str.strip()
RECURSIVE LStrip(_)
LStrip(text) ==
    IF text # <<>> /\ Head(text) \in Whitespace THEN LStrip(Tail(text)) ELSE text

RECURSIVE RStrip(_)
RStrip(text) ==
    IF text # <<>> /\ text[Len(text)] \in Whitespace
    THEN RStrip(SubSeq(text, 1, Len(text) - 1))
    ELSE text

Strip(text) == RStrip(LStrip(text))

(***************************************************************************)
(* deduplicate_articles                                                    *)
(***************************************************************************)
stop_words ==
    { <<"t","h","e">>, <<"a">>, <<"a","n">>, <<"i","n">>, <<"o","n">>, <<"a","t">>,
      <<"f","o","r">>, <<"t","o">>, <<"o","f">>, <<"a","n","d">>, <<"i","s">>,
      <<"w","i","t","h">>, <<"b","y">>, <<"f","r","o","m">>, <<"n","e","w","s">>,
      <<"u","p","d","a","t","e">>, <<"l","i","v","e">>, <<"s","a","y","s">>,
      <<"r","e","p","o","r","t">> }

\* a keyword is longer than this many characters
MinWordLen == 2

get_keywords(text) ==
    IF text = <<>> THEN {}
    ELSE LET clean == StripPunct(Lower(text))
             words == SplitWords(clean)
         IN  {w \in words : w \notin stop_words /\ Len(w) > MinWordLen}

(* Titles of the explored articles *)
\* "Sun ice"
TitleSunIce == <<"S","u","n"," ","i","c","e">>
\* "The sun!"
TitleSun    == <<"T","h","e"," ","s","u","n","!">>
\* "Ice: fog"
TitleIceFog == <<"I","c","e",":"," ","f","o","g">>
\* "fog  oak"
TitleFogOak == <<"f","o","g"," "," ","o","a","k">>
\* "An AI" (a stop word and a two-letter word: no keywords)
TitleNoKeys == <<"A","n"," ","A","I">>
\* ""
TitleEmpty  == <<>>
\* "elm ash bay"
TitleThree  == <<"e","l","m"," ","a","s","h"," ","b","a","y">>
\* "elm ash bay cod eel fox gnu hen jay owl"
TitleTen    == <<"e","l","m"," ","a","s","h"," ","b","a","y"," ","c","o","d"," ",
                 "e","e","l"," ","f","o","x"," ","g","n","u"," ","h","e","n"," ",
                 "j","a","y"," ","o","w","l">>

KnownTitles == {TitleSunIce, TitleSun, TitleIceFog, TitleFogOak, TitleNoKeys,
                TitleEmpty, TitleThree, TitleTen}

\* get_keywords evaluated once for the titles above (the function is pure)
KeywordTable == [t \in KnownTitles |-> get_keywords(t)]

\* get_keywords(text), looked up when text is one of the titles above
Keywords(text) ==
    IF text \in KnownTitles THEN KeywordTable[text] ELSE get_keywords(text)

\* "ratio > 0.3 or len(overlap) >= 3".  ratio is the float quotient
\* len(overlap) / len(union); for the set sizes that occur it exceeds the float
\* 0.3 exactly when 10 * |overlap| > 3 * |union| (3/10 rounds to the same float
\* as the literal 0.3, and every other quotient differs from it by far more
\* than a rounding error).
RatioNum == 3
RatioDen == 10
MinOverlap == 3

IsSimilar(current_keywords, existing_keywords) ==
    LET overlap == current_keywords \cap existing_keywords
        union   == current_keywords \cup existing_keywords
    IN  \/ RatioDen * Cardinality(overlap) > RatioNum * Cardinality(union)
        \/ Cardinality(overlap) >= MinOverlap

MutLastOnlyFirstDuplicate(arts, unique, i) ==
    LET current_keywords == Keywords(arts[i].title)
        hits == {j \in DOMAIN unique :
                    LET existing_keywords == Keywords(arts[unique[j]].title)
                    IN  /\ j = Len(unique)
                        /\ current_keywords # {}
                        /\ existing_keywords # {}
                        /\ IsSimilar(current_keywords, existing_keywords)}
    IN  IF hits = {} THEN 0 ELSE Min(hits)

\* The inner for loop: the first position of unique whose article the incoming
\* article arts[i] duplicates, 0 when the loop ends without a break.  A pair
\* with an empty keyword set is skipped ("continue").
FirstDuplicate(arts, unique, i) ==
    LET current_keywords == Keywords(arts[i].title)
        hits == {j \in DOMAIN unique :
                    LET existing_keywords == Keywords(arts[unique[j]].title)
                    IN  /\ current_keywords # {}
                        /\ existing_keywords # {}
                        /\ IsSimilar(current_keywords, existing_keywords)}
    IN  IF hits = {} THEN 0 ELSE Min(hits)

\* list.remove(x): drops the first element that compares equal (==) to x;
\* articles are dicts, so equality is equality of their fields.
ListRemove(arts, unique, x) ==
    LET p == Min({j \in DOMAIN unique : arts[unique[j]] = arts[x]})
    IN  SubSeq(unique, 1, p - 1) \o SubSeq(unique, p + 1, Len(unique))

MutReplaceInPlace(arts, unique, i) ==
    LET j == FirstDuplicate(arts, unique, i)
    IN  IF j = 0 THEN Append(unique, i)
        ELSE IF Truthy(arts[i].urlToImage) /\ ~Truthy(arts[unique[j]].urlToImage)
             THEN [unique EXCEPT ![j] = i]
             ELSE unique

MutKeepBoth(arts, unique, i) ==
    LET j == FirstDuplicate(arts, unique, i)
    IN  IF j = 0 THEN Append(unique, i)
        ELSE IF Truthy(arts[i].urlToImage) /\ ~Truthy(arts[unique[j]].urlToImage)
             THEN Append(unique, i)
             ELSE unique

MutAlwaysReplace(arts, unique, i) ==
    LET j == FirstDuplicate(arts, unique, i)
    IN  IF j = 0 THEN Append(unique, i)
        ELSE IF Truthy(arts[i].urlToImage)
             THEN Append(ListRemove(arts, unique, unique[j]), i)
             ELSE unique

MutForgetFlag(arts, unique, i) ==
    LET j == FirstDuplicate(arts, unique, i)
    IN  IF j = 0 THEN Append(unique, i)
        ELSE IF Truthy(arts[i].urlToImage) /\ ~Truthy(arts[unique[j]].urlToImage)
             THEN Append(Append(ListRemove(arts, unique, unique[j]), i), i)
             ELSE Append(unique, i)

\* One iteration of the outer for loop, for the incoming article arts[i].
DedupStep(arts, unique, i) ==
    LET j == FirstDuplicate(arts, unique, i)
    IN  IF j = 0 THEN Append(unique, i)
        ELSE IF Truthy(arts[i].urlToImage) /\ ~Truthy(arts[unique[j]].urlToImage)
             THEN Append(ListRemove(arts, unique, unique[j]), i)
             ELSE unique

\* The whole function: the references left after the loop consumed n articles.
RECURSIVE DedupRefs(_, _)
DedupRefs(arts, n) ==
    IF n = 0 THEN <<>> ELSE DedupStep(arts, DedupRefs(arts, n - 1), n)

deduplicate_articles(arts) ==
    LET refs == DedupRefs(arts, Len(arts))
    IN  [k \in DOMAIN refs |-> arts[refs[k]]]

(***************************************************************************)
(* Inputs of the deduplication runs                                        *)
(***************************************************************************)
ImageUrl == "https://img.example/1.jpg"

Article(t, img) == [title |-> t, urlToImage |-> img]

Catalog ==
    {Article(t, img) : t \in {TitleSunIce, TitleSun, TitleIceFog, TitleFogOak},
                       img \in {None, ImageUrl}}
    \cup {Article(TitleSunIce, ""), Article(TitleNoKeys, None), Article(TitleEmpty, None),
          Article(TitleThree, None), Article(TitleTen, ImageUrl)}

\* longest input list explored
MaxArticles == 3

RECURSIVE SeqsUpTo(_, _)
SeqsUpTo(S, n) ==
    IF n = 0 THEN {<<>>}
    ELSE LET shorter == SeqsUpTo(S, n - 1)
         IN  shorter \cup {Append(s, e) : s \in {t \in shorter : Len(t) = n - 1}, e \in S}

DedupIdle ==
    /\ articles = <<>>
    /\ art_idx = 0
    /\ unique_articles = <<>>

FetchIdle ==
    /\ query = <<>>
    /\ nd_key = FALSE
    /\ fetch_pc = "idle"
    /\ called = "none"
    /\ requests = <<>>
    /\ failure = FALSE
    /\ raised = FALSE
    /\ ret = <<>>

SessionIdle ==
    /\ study_list = <<>>
    /\ quiz_data = [is_none |-> TRUE, questions |-> <<>>]
    /\ quiz_submitted = FALSE
    /\ quiz_mode = FALSE
    /\ current_q_index = 0
    /\ user_answers = <<>>
    /\ view = "feed"
    /\ crashed = FALSE
    /\ graded = <<>>

InitDedup ==
    /\ articles \in SeqsUpTo(Catalog, MaxArticles)
    /\ art_idx = 0
    /\ unique_articles = <<>>
    /\ FetchIdle
    /\ SessionIdle

\* "for art in articles": one iteration
ProcessArticle ==
    /\ art_idx < Len(articles)
    /\ art_idx' = art_idx + 1
    /\ unique_articles' = DedupStep(articles, unique_articles, art_idx + 1)
    /\ UNCHANGED <<articles, fetchVars, sessionVars>>

NextDedup == ProcessArticle

SpecDedup == InitDedup /\ [][NextDedup]_vars

(***************************************************************************)
(* Properties of deduplicate_articles                                      *)
(***************************************************************************)
HasImage(a) == Truthy(a.urlToImage)

\* The match relation of two articles: both keyword sets non-empty, and
\* Jaccard ratio > 0.3 or at least 3 shared keywords.
Matches(a, b) ==
    LET ka == Keywords(a.title)
        kb == Keywords(b.title)
    IN  /\ ka # {}
        /\ kb # {}
        /\ \/ RatioDen * Cardinality(ka \cap kb) > RatioNum * Cardinality(ka \cup kb)
           \/ Cardinality(ka \cap kb) >= MinOverlap

Returned == Range(unique_articles)
DedupDone == art_idx = Len(articles)

\* C1: the output is never longer than the input consumed so far, every output
\* element is a reference to an input article, and no input article is
\* referenced twice (so no article occurs more often than in the input).
C1_OutputFromInput ==
    /\ Len(unique_articles) <= art_idx
    /\ art_idx <= Len(articles)
    /\ \A k \in DOMAIN unique_articles : unique_articles[k] \in 1..art_idx
    /\ \A k1, k2 \in DOMAIN unique_articles :
           unique_articles[k1] = unique_articles[k2] => k1 = k2

\* a finished run over three articles that collapsed them into one
C1_Witness ==
    /\ DedupDone
    /\ Len(articles) = MaxArticles
    /\ Len(unique_articles) = 1

\* C2 as stated: every consumed input article is returned or matches a
\* returned article.
C2_Original ==
    \A i \in 1..art_idx :
        \/ i \in Returned
        \/ \E r \in Returned : Matches(articles[i], articles[r])

\* C2 amended: every consumed input article is returned, or matches a returned
\* article, or matches an image-less input article that in turn matches a
\* later returned article carrying an image (the representative it was merged
\* into, since replaced).
C2_Amended ==
    \A i \in 1..art_idx :
        \/ i \in Returned
        \/ \E r \in Returned : Matches(articles[i], articles[r])
        \/ \E m \in 1..art_idx, r \in Returned :
              /\ m \notin Returned
              /\ m < r
              /\ ~HasImage(articles[m])
              /\ HasImage(articles[r])
              /\ Matches(articles[i], articles[m])
              /\ Matches(articles[m], articles[r])

\* a finished run in which an article is tied to the output only through a
\* replaced representative
C2_Witness ==
    /\ DedupDone
    /\ \E i \in 1..art_idx :
          /\ i \notin Returned
          /\ \A r \in Returned : ~Matches(articles[i], articles[r])

\* C3: the returned references are strictly increasing: the output is a
\* subsequence of the input.
C3_Subsequence ==
    \A k1, k2 \in DOMAIN unique_articles :
        k1 < k2 => unique_articles[k1] < unique_articles[k2]

\* a finished run in which the first representative was replaced by the third
\* article while the second stayed
C3_Witness ==
    /\ DedupDone
    /\ Len(articles) = 3
    /\ unique_articles = <<2, 3>>
    /\ ~HasImage(articles[1])
    /\ HasImage(articles[3])
    /\ Matches(articles[1], articles[3])
    /\ ~Matches(articles[2], articles[3])

RemoveIndex(s, j) == SubSeq(s, 1, j - 1) \o SubSeq(s, j + 1, Len(s))

C4_Step ==
    art_idx' = art_idx + 1 =>
        LET i == art_idx + 1
            M == {j \in DOMAIN unique_articles :
                      Matches(articles[i], articles[unique_articles[j]])}
        IN  IF M = {}
            THEN unique_articles' = Append(unique_articles, i)
            ELSE LET j == Min(M)
                 IN  IF HasImage(articles[i]) /\ ~HasImage(articles[unique_articles[j]])
                     THEN unique_articles' = Append(RemoveIndex(unique_articles, j), i)
                     ELSE unique_articles' = unique_articles

C4_Pair ==
    (/\ DedupDone
     /\ Len(articles) = 2
     /\ Matches(articles[1], articles[2])
     /\ HasImage(articles[1]) # HasImage(articles[2]))
        => unique_articles = <<IF HasImage(articles[1]) THEN 1 ELSE 2>>

\* C4: an incoming article that matches a representative (the first matching
\* one in output order) replaces it - removed, incoming appended at the end -
\* exactly when the incoming article has an image and the representative has
\* none, and otherwise leaves the output unchanged; of two matching articles
\* with exactly one image the result is the one with the image.
C4_RepresentativeSelection == [][C4_Step]_vars /\ []C4_Pair

\* the second of two matching articles carried the only image and replaced the first
C4_Witness ==
    /\ DedupDone
    /\ Len(articles) = 2
    /\ Matches(articles[1], articles[2])
    /\ ~HasImage(articles[1])
    /\ HasImage(articles[2])
    /\ unique_articles = <<2>>

\* C10 as stated: no two distinct returned articles match each other.
C10_Original ==
    \A r1, r2 \in Returned : r1 # r2 => ~Matches(articles[r1], articles[r2])

\* C10 amended: two returned articles match each other only when the later one
\* carries an image and entered through the image-replacement path, taking the
\* place of an earlier image-less article it matches; returned articles
\* without an image match no earlier returned article.
C10_Amended ==
    \A r1, r2 \in Returned :
        (r1 < r2 /\ Matches(articles[r1], articles[r2])) =>
            /\ HasImage(articles[r2])
            /\ \E m \in 1..(r2 - 1) :
                  /\ m \notin Returned
                  /\ ~HasImage(articles[m])
                  /\ Matches(articles[m], articles[r2])

\* a finished run that returned two articles matching each other
C10_Witness ==
    /\ DedupDone
    /\ \E r1, r2 \in Returned : r1 < r2 /\ Matches(articles[r1], articles[r2])

(***************************************************************************)
(* Provider adapters and fetch_news                                        *)
(*                                                                         *)
(* An upstream response is [kind, items]:                                  *)
(*   "error"      the request raised (network error, timeout)              *)
(*   "malformed"  the body is not JSON, or not a JSON object               *)
(*   "status"     a JSON object whose status is not the success value      *)
(*   "null"       success status, but the result list is null              *)
(*   "ok"         success status with the result list items                *)
(* An item of a JSON result list is a JSON object (ok = TRUE) or some      *)
(* other JSON value (ok = FALSE), on which item.get raises.  st.cache_data *)
(* only replays an earlier return value and is left out: each behaviour    *)
(* makes one call.                                                         *)
(***************************************************************************)
RawItem(t, img) == [ok |-> TRUE, title |-> t, image |-> img]
BadItem == [ok |-> FALSE, title |-> <<>>, image |-> None]

\* an element of an article list that is not a dict
NotADict == "<not a dict>"
NonDictArticle == [title |-> <<>>, urlToImage |-> NotADict]
IsDict(a) == a.urlToImage # NotADict

Response(kind, items) == [kind |-> kind, items |-> items]

MinQueryLen == 2

MutUntrimmedNoQuery(q) == q = <<>> \/ Len(q) < MinQueryLen

\* "if not query or len(query.strip()) < 2: return []"
NoQuery(q) == q = <<>> \/ Len(Strip(q)) < MinQueryLen

Call(articles_, failed, sent) == [ret |-> articles_, failure |-> failed, requests |-> sent]
Request(provider, q) == [provider |-> provider, q |-> q]

\* number of leading items converted before item.get raises (all, if none raises)
RECURSIVE ConvertedPrefix(_)
ConvertedPrefix(items) ==
    IF items = <<>> \/ ~Head(items).ok THEN 0 ELSE 1 + ConvertedPrefix(Tail(items))

\* The title prefixes.  The flag of fetch_newsdata_layer is two regional-indicator
\* code points, which a TLA+ string cannot hold: two other non-alphanumeric
\* symbols stand for them.
GnewsMarker    == <<"⚡", " ">>
NewsdataMarker == <<"⚐", "⚑", " ">>

fetch_gnews_layer(q, resp) ==
    IF NoQuery(q) THEN Call(<<>>, FALSE, <<>>)
    ELSE LET sent == <<Request("gnews", q)>>
         IN  IF resp.kind # "ok" THEN Call(<<>>, TRUE, sent)
             ELSE LET n == ConvertedPrefix(resp.items)
                  IN  Call([k \in 1..n |->
                               Article(GnewsMarker \o resp.items[k].title, None)],
                           n < Len(resp.items), sent)

\* query.replace('(', '').replace(')', '')
RemoveParens(q) == SelectSeq(q, LAMBDA c : c \notin {"(", ")"})

OrSeparator == <<" ", "O", "R", " ">>

\* text.split(" OR ")[0]
FirstOrClause(text) ==
    LET cuts == {i \in 1..Len(text) :
                    /\ i + Len(OrSeparator) - 1 <= Len(text)
                    /\ SubSeq(text, i, i + Len(OrSeparator) - 1) = OrSeparator}
    IN  IF cuts = {} THEN text ELSE SubSeq(text, 1, Min(cuts) - 1)

\* data.get("results", [])[:5]
NewsdataCap == 5

Take(s, n) == SubSeq(s, 1, IF Len(s) < n THEN Len(s) ELSE n)

fetch_newsdata_layer(q, key, resp) ==
    IF NoQuery(q) THEN Call(<<>>, FALSE, <<>>)
    ELSE IF ~key THEN Call(<<>>, FALSE, <<>>)
    ELSE LET sent == <<Request("newsdata", FirstOrClause(RemoveParens(q)))>>
         IN  CASE resp.kind \in {"error", "malformed", "null"} -> Call(<<>>, TRUE, sent)
               [] resp.kind = "status" -> Call(<<>>, TRUE, sent)
               [] OTHER ->
                    LET items == Take(resp.items, NewsdataCap)
                        n == ConvertedPrefix(items)
                    IN  Call([k \in 1..n |->
                                 Article(NewsdataMarker \o items[k].title, items[k].image)],
                             n < Len(items), sent)

\* the upstream articles are not converted: articles.extend(data.get("articles", []))
fetch_newsapi_layer(q, resp) ==
    IF NoQuery(q) THEN Call(<<>>, FALSE, <<>>)
    ELSE LET sent == <<Request("newsapi", q)>>
         IN  CASE resp.kind \in {"error", "malformed", "null"} -> Call(<<>>, TRUE, sent)
               [] resp.kind = "status" -> Call(<<>>, TRUE, sent)
               [] OTHER ->
                    Call([k \in DOMAIN resp.items |->
                             IF resp.items[k].ok
                             THEN Article(resp.items[k].title, resp.items[k].image)
                             ELSE NonDictArticle],
                         FALSE, sent)

\* fetch_news: the three adapters in order, then deduplicate_articles, which
\* raises on art['title'] when an element is not a dict.
fetch_news(q, key, r_newsapi, r_newsdata, r_gnews) ==
    LET a == fetch_newsapi_layer(q, r_newsapi)
        b == fetch_newsdata_layer(q, key, r_newsdata)
        c == fetch_gnews_layer(q, r_gnews)
        all_articles == a.ret \o b.ret \o c.ret
        bad == \E k \in DOMAIN all_articles : ~IsDict(all_articles[k])
    IN  [ret      |-> IF bad THEN <<>> ELSE deduplicate_articles(all_articles),
         raised   |-> bad,
         failure  |-> a.failure \/ b.failure \/ c.failure \/ bad,
         requests |-> a.requests \o b.requests \o c.requests]

(***************************************************************************)
(* Inputs of the fetch runs                                                *)
(***************************************************************************)
Queries ==
    { <<>>,
      <<"a">>,
      <<" ", "a", " ">>,
      <<" ", " ">>,
      <<"\t", "a", "\n">>,
      <<"A", "I">>,
      <<"(", "i", "c", "e", ")", " ", "O", "R", " ", "f", "o", "g">> }

Items == {RawItem(TitleSunIce, ImageUrl), RawItem(TitleSun, None), BadItem}

\* longest upstream result list handed to a single adapter call
MaxItems == 2
\* longest upstream result list per provider in a fetch_news call
MaxPipelineItems == 1

\* six results, the sixth not an object: beyond the cap of fetch_newsdata_layer
SixResults ==
    [k \in 1..(NewsdataCap + 1) |->
        IF k <= NewsdataCap THEN RawItem(TitleSun, None) ELSE BadItem]

FailureKinds == {"error", "malformed", "status", "null"}

JsonResponses(n) ==
    {Response(k, <<>>) : k \in FailureKinds}
        \cup {Response("ok", items) : items \in SeqsUpTo(Items, n)}

\* GNews.get_news raises or returns a list of the dicts it builds itself
GnewsResponses(n) ==
    {Response("error", <<>>)}
        \cup {Response("ok", items) : items \in SeqsUpTo({it \in Items : it.ok}, n)}

InitFetch ==
    /\ query \in Queries
    /\ nd_key \in BOOLEAN
    /\ fetch_pc = "idle"
    /\ called = "none"
    /\ requests = <<>>
    /\ failure = FALSE
    /\ raised = FALSE
    /\ ret = <<>>
    /\ DedupIdle
    /\ SessionIdle

Returns(name, call) ==
    /\ fetch_pc' = "returned"
    /\ called' = name
    /\ ret' = call.ret
    /\ failure' = call.failure
    /\ requests' = call.requests
    /\ UNCHANGED <<query, nd_key, dedupVars, sessionVars>>

CallGnews ==
    /\ fetch_pc = "idle"
    /\ \E resp \in GnewsResponses(MaxItems) :
          Returns("fetch_gnews_layer", fetch_gnews_layer(query, resp))
    /\ raised' = FALSE

CallNewsdata ==
    /\ fetch_pc = "idle"
    /\ \E resp \in JsonResponses(MaxItems) \cup {Response("ok", SixResults)} :
          Returns("fetch_newsdata_layer", fetch_newsdata_layer(query, nd_key, resp))
    /\ raised' = FALSE

CallNewsapi ==
    /\ fetch_pc = "idle"
    /\ \E resp \in JsonResponses(MaxItems) :
          Returns("fetch_newsapi_layer", fetch_newsapi_layer(query, resp))
    /\ raised' = FALSE

CallFetchNews ==
    /\ fetch_pc = "idle"
    /\ \E r1 \in JsonResponses(MaxPipelineItems),
          r2 \in JsonResponses(MaxPipelineItems),
          r3 \in GnewsResponses(MaxPipelineItems) :
          LET call == fetch_news(query, nd_key, r1, r2, r3)
          IN  /\ Returns("fetch_news", call)
              /\ raised' = call.raised

NextFetch == CallGnews \/ CallNewsdata \/ CallNewsapi \/ CallFetchNews

SpecFetch == InitFetch /\ [][NextFetch]_vars

(***************************************************************************)
(* Properties of the adapters and of fetch_news                            *)
(***************************************************************************)
Adapters == {"fetch_gnews_layer", "fetch_newsdata_layer", "fetch_newsapi_layer"}

\* C5: an adapter call in which any failure occurred returns an empty
\* sequence and raises nothing.
C5_FailSoft ==
    (fetch_pc = "returned" /\ called \in Adapters /\ failure)
        => (ret = <<>> /\ ~raised)

\* C6: a call (adapter or fetch_news) whose query is empty or shorter than 2
\* characters after trimming returns an empty sequence, raises nothing and
\* issues no upstream request.
C6_NoQuery ==
    (fetch_pc = "returned" /\ (query = <<>> \/ Len(Strip(query)) < 2))
        => (ret = <<>> /\ requests = <<>> /\ ~raised)

\* fetch_news returned for a padded one-character query
C6_Witness ==
    /\ fetch_pc = "returned"
    /\ called = "fetch_news"
    /\ Len(query) >= 2
    /\ Len(Strip(query)) < 2
    /\ ret = <<>>
    /\ requests = <<>>

(***************************************************************************)
(* The Streamlit session                                                   *)
(*                                                                         *)
(* Every widget event reruns the script top to bottom: the handler of the  *)
(* pressed button changes st.session_state and calls st.rerun(), and the   *)
(* run that follows renders the page from the new state.  An action below  *)
(* is one event: the handler followed by that render.  The sidebar and the *)
(* header are rendered before the mode switch, so their buttons stay       *)
(* available whatever the main area shows.                                 *)
(***************************************************************************)
NoQuiz      == [is_none |-> TRUE, questions |-> <<>>]
QuizOf(qs)  == [is_none |-> FALSE, questions |-> qs]

Question(opts, answer) == [options |-> opts, correct_answer |-> answer]

\* user_answers.get(idx)
AnswerGet(answers, idx) == IF idx \in DOMAIN answers THEN answers[idx] ELSE None

\* user_answers[idx] = answer
AnswerPut(answers, idx, answer) ==
    [k \in DOMAIN answers \cup {idx} |-> IF k = idx THEN answer ELSE answers[k]]

MutModeIsQuiz(mode, data) == mode

\* "if st.session_state.quiz_mode and st.session_state.quiz_data:" - None and
\* the empty list are falsy
ModeIsQuiz(mode, data) == mode /\ ~data.is_none /\ data.questions # <<>>

\* "if user_ans == q['correct_answer']" for question number idx (from 0)
IsCorrect(data, answers, idx) ==
    AnswerGet(answers, idx) = data.questions[idx + 1].correct_answer

\* What a run renders from the session state: the branch of the mode switch,
\* whether the run stops on an exception (len(None), division by a zero
\* question count, an index past the last question, list.index of a stored
\* answer that is not an option), and the results view's verdict per question.
Render(mode, data, index, answers, submitted) ==
    IF ModeIsQuiz(mode, data)
    THEN LET total_q == Len(data.questions)
             broken  == \/ data.is_none
                        \/ total_q = 0
                        \/ index >= total_q
                        \/ /\ index \in DOMAIN answers
                           /\ answers[index] \notin Range(data.questions[index + 1].options)
         IN  [view    |-> "quiz",
              crashed |-> broken,
              graded  |-> IF broken \/ ~submitted THEN <<>>
                          ELSE [k \in 1..total_q |-> IsCorrect(data, answers, k - 1)]]
    ELSE [view |-> "feed", crashed |-> FALSE, graded |-> <<>>]

Rerun ==
    LET page == Render(quiz_mode', quiz_data', current_q_index', user_answers',
                       quiz_submitted')
    IN  /\ view' = page.view
        /\ crashed' = page.crashed
        /\ graded' = page.graded
        /\ UNCHANGED <<dedupVars, fetchVars>>

MutIsInListByArticle(list, art) == \E k \in DOMAIN list : list[k] = art

\* any(a['title'] == art['title'] for a in st.session_state.study_list)
is_in_list(list, art) == \E k \in DOMAIN list : list[k].title = art.title

(***************************************************************************)
(* Inputs of the session                                                   *)
(***************************************************************************)
\* the article lists cached per topic tab (st.session_state[data_key])
Feed ==
    << <<Article(TitleSunIce, ImageUrl), Article(TitleSun, None)>>,
       <<Article(TitleSunIce, None), Article(TitleSunIce, ImageUrl)>> >>

\* what the model may answer: a well-formed question (one option is the empty
\* string), one whose correct_answer is no option, one whose correct_answer is
\* JSON null
QuestionKinds ==
    { Question(<<"A", "B", "">>, "A"),
      Question(<<"A", "B">>, "C"),
      Question(<<"A", "B">>, None) }

\* longest quiz generate_quiz_json returns
MaxQuestions == 2

Init ==
    /\ SessionIdle
    /\ DedupIdle
    /\ FetchIdle

\* the "Study" button of card idx of tab i (shown in the feed when the card's
\* title is not in the study list)
Study(i, idx) ==
    /\ view = "feed"
    /\ ~is_in_list(study_list, Feed[i][idx])
    /\ study_list' = Append(study_list, Feed[i][idx])
    /\ UNCHANGED <<quiz_data, quiz_submitted, quiz_mode, current_q_index, user_answers>>
    /\ Rerun

\* the remove button of entry i (from 0) of the sidebar's study list
Remove(i) ==
    /\ i < Len(study_list)
    /\ study_list' = SubSeq(study_list, 1, i) \o SubSeq(study_list, i + 2, Len(study_list))
    /\ UNCHANGED <<quiz_data, quiz_submitted, quiz_mode, current_q_index, user_answers>>
    /\ Rerun

MutStartQuizKeepsIndex(generated) ==
    /\ study_list # <<>>
    /\ quiz_data' = QuizOf(generated)
    /\ quiz_mode' = TRUE
    /\ user_answers' = <<>>
    /\ quiz_submitted' = FALSE
    /\ UNCHANGED <<study_list, current_q_index>>
    /\ Rerun

\* "Start Quiz" (in the sidebar, under a non-empty study list); generated is
\* what generate_quiz_json returned: [] on any failure, else the parsed list
StartQuiz(generated) ==
    /\ study_list # <<>>
    /\ quiz_data' = QuizOf(generated)
    /\ quiz_mode' = TRUE
    /\ current_q_index' = 0
    /\ user_answers' = <<>>
    /\ quiz_submitted' = FALSE
    /\ UNCHANGED study_list
    /\ Rerun

\* "Exit Quiz" (in the header, whenever quiz_mode is set)
ExitQuiz ==
    /\ quiz_mode
    /\ quiz_mode' = FALSE
    /\ UNCHANGED <<study_list, quiz_data, quiz_submitted, current_q_index, user_answers>>
    /\ Rerun

QuizShown == view = "quiz" /\ ~crashed

\* choosing an option of the radio: "if answer: user_answers[current_q] = answer"
Select(answer) ==
    /\ QuizShown
    /\ answer \in Range(quiz_data.questions[current_q_index + 1].options)
    /\ user_answers' = IF Truthy(answer)
                       THEN AnswerPut(user_answers, current_q_index, answer)
                       ELSE user_answers
    /\ UNCHANGED <<study_list, quiz_data, quiz_submitted, quiz_mode, current_q_index>>
    /\ Rerun

Previous ==
    /\ QuizShown
    /\ current_q_index > 0
    /\ current_q_index' = current_q_index - 1
    /\ UNCHANGED <<study_list, quiz_data, quiz_submitted, quiz_mode, user_answers>>
    /\ Rerun

NextQuestion ==
    /\ QuizShown
    /\ current_q_index < Len(quiz_data.questions) - 1
    /\ current_q_index' = current_q_index + 1
    /\ UNCHANGED <<study_list, quiz_data, quiz_submitted, quiz_mode, user_answers>>
    /\ Rerun

Submit ==
    /\ QuizShown
    /\ ~(current_q_index < Len(quiz_data.questions) - 1)
    /\ quiz_submitted' = TRUE
    /\ UNCHANGED <<study_list, quiz_data, quiz_mode, current_q_index, user_answers>>
    /\ Rerun

Next ==
    \/ \E i \in DOMAIN Feed : \E idx \in DOMAIN Feed[i] : Study(i, idx)
    \/ \E i \in 0..(Len(study_list) - 1) : Remove(i)
    \/ \E generated \in SeqsUpTo(QuestionKinds, MaxQuestions) : StartQuiz(generated)
    \/ ExitQuiz
    \/ \E answer \in {"A", "B", ""} : Select(answer)
    \/ Previous
    \/ NextQuestion
    \/ Submit

Spec == Init /\ [][Next]_vars

(***************************************************************************)
(* Properties of the session                                               *)
(***************************************************************************)
\* C7: once the results are shown, a question whose correct_answer equals none
\* of its options is never scored correct.
C7_NeverCorrect ==
    \A k \in DOMAIN graded :
        quiz_data.questions[k].correct_answer \notin Range(quiz_data.questions[k].options)
            => ~graded[k]

\* C8: a session whose quiz has zero questions is never rendered as a quiz in
\* progress, and the run does not crash: the feed is shown; the question view
\* is rendered only with at least one question.
C8_EmptyQuizGuard ==
    /\ (quiz_mode /\ ~quiz_data.is_none /\ quiz_data.questions = <<>>)
           => (view = "feed" /\ ~crashed)
    /\ view = "quiz" => (~quiz_data.is_none /\ Len(quiz_data.questions) >= 1)

\* Start Quiz stored an empty quiz and the feed is shown
C8_Witness ==
    /\ quiz_mode
    /\ ~quiz_data.is_none
    /\ quiz_data.questions = <<>>
    /\ view = "feed"

\* C9: the study list never holds two articles with the same title.
C9_UniqueTitles ==
    \A k1, k2 \in DOMAIN study_list :
        study_list[k1].title = study_list[k2].title => k1 = k2

\* the study list holds an article whose title is also on another, different card
C9_Witness ==
    /\ Len(study_list) >= 2
    /\ \E k \in DOMAIN study_list : \E i \in DOMAIN Feed : \E idx \in DOMAIN Feed[i] :
          /\ Feed[i][idx].title = study_list[k].title
          /\ Feed[i][idx] # study_list[k]

\* the question view is rendered with the current index on a question
C11_IndexInRange ==
    view = "quiz" =>
        /\ ~quiz_data.is_none
        /\ 0 <= current_q_index
        /\ current_q_index < Len(quiz_data.questions)
        /\ ~crashed

\* a Start Quiz event (the list it stores is the one found in the next state)
\* leaves the index at 0, no answers and the quiz not submitted
C11_StartQuizResets ==
    (~quiz_data'.is_none /\ StartQuiz(quiz_data'.questions)) =>
        /\ current_q_index' = 0
        /\ user_answers' = <<>>
        /\ quiz_submitted' = FALSE

\* C11: whenever the quiz question view is rendered,
\* 0 <= current_q_index < number of questions, after any sequence of Start
\* Quiz, Previous, Next, Submit and Exit Quiz events (a new, shorter quiz after
\* navigating in an earlier one included); and Start Quiz always resets
\* current_q_index to 0, user_answers to empty and quiz_submitted to false.
C11_QuizIndex == []C11_IndexInRange /\ [][C11_StartQuizResets]_vars

\* the question view on the last question of a longest quiz, answered and
\* submitted: the state a new, shorter quiz has to be started from
C11_Witness ==
    /\ view = "quiz"
    /\ Len(quiz_data.questions) = MaxQuestions
    /\ current_q_index = MaxQuestions - 1
    /\ current_q_index > 0
    /\ user_answers # <<>>
    /\ quiz_submitted

=============================================================================
